---- MODULE Spec2Model ----
(***************************************************************************)
(* Restaman: REST routes generated from mongoose models.                   *)
(* State machine of the registry (Restaman), its wrappers (ModelWrapper),  *)
(* the router built from them and one request travelling through a route.  *)
(***************************************************************************)
EXTENDS Integers, Sequences, FiniteSets, TLC

VARIABLES
    wrappers,   \* heap of ModelWrapper objects, indexed by object identity
    models,     \* Restaman.models: sequence of wrapper identities
    lastOp,     \* the last registration call that can throw, and its outcome
    router,     \* the express router built by router(): its route table
    store,      \* documents per database and model (the mapper's collections)
    rq,         \* the request in flight (NoRq when idle)
    log,        \* hook callbacks invoked for the request, in call order
    mapperLog,  \* mapper calls issued for the request, in call order
    out,        \* what the request produced: middleware run, response, next(err), throw
    regs,       \* every registration made so far (hooks, middlewares, static
                \* methods), numbered in the order it was made among those of
                \* its wrapper, kind and key, with the number of routers built before it
    parked,     \* a second request, waiting for its promise while rq is served
    shadow      \* per collection, the documents the successful create, update
                \* and delete requests so far ask for

vars == <<wrappers, models, lastOp, router, store, rq, log, mapperLog, out, regs, parked, shadow>>

----------------------------------------------------------------------------
(* Bounds of the model *)

MaxWrappers == 3    \* ModelWrapper objects ever constructed and registered
MaxHooks == 2       \* addHook calls made by the application on one wrapper
MaxHidden == 1      \* length of a wrapper's hidden list
MaxBuilds == 1      \* calls of router()
MaxMwSets == 2      \* setMiddleware assignments on one wrapper
MaxExposes == 3     \* exposeStatic calls that succeed on one wrapper
MaxMethods == 2     \* descriptors in the methods list of one wrapper

----------------------------------------------------------------------------
(* Values *)

Undef == "undefined"
NoErr == [name |-> "none"]

\* models registered with mongoose in the tests, and one that is not
MongooseModels == {"Test", "Post"}
ModelNames == {"Test", "Post", "User"}
Dbs == {"default", "db2"}
Ids == {"1", "2"}
HookValue == "hook"     \* the value a mutating hook writes
BodyValue == "x"        \* the value a client sends

\* schema.statics of each mongoose model that are functions
SchemaStatics(mn) ==
    IF mn = "Test" THEN {"exposedStaticMethod", "exposedStaticMethod2"} ELSE {}

\* schema.methods of each mongoose model: functions of its documents, which
\* mongoose puts on the prototype of the model, not on the model
SchemaMethods(mn) ==
    IF mn = "Test" THEN {"instanceMethod"} ELSE {}

\* collection name of a mongoose model (pluralised, lower case)
CollectionName(mn) ==
    CASE mn = "Test" -> "tests"
      [] mn = "Post" -> "posts"
      [] OTHER -> "users"

HookTypes == {"pre", "post"}
HookKeys == {"init", "create", "find", "findOne", "update", "delete", "count", "static", "all"}
HideActions == <<"create", "find", "findOne", "delete", "update">>
Callbacks == {"hThrow", "hSet", "hDb", "hide"}
MwKeys == {"count", "find", "findOne", "create", "update", "delete", "static", "all"}
MwCallbacks == {"mwPass", "mwDeny"}

\* Errors, with their two status attributes (0: the attribute is not set)
OopsError == [name |-> "Error", message |-> "Oops!", status |-> 0, statusCode |-> 0]
MapperError == [name |-> "MongoError", message |-> "mapper failure", status |-> 0, statusCode |-> 0]
CastError == [name |-> "CastError", message |-> "Cast to number failed", status |-> 0, statusCode |-> 0]
\* create: new TypeError('Only objects allowed') with statusCode 400
ValidationError == [name |-> "TypeError", message |-> "Only objects allowed", status |-> 0, statusCode |-> 400]
\* class NotFoundError
NotFoundError == [name |-> "Not Found", message |-> "Document Not Found", status |-> 0, statusCode |-> 404]
\* the error of findById without its status
ModelNotFound_NoStatus == [name |-> "ModelNotFound", message |-> "Not Found", status |-> 0, statusCode |-> 0]

\* the error findById builds
ModelNotFound == [name |-> "ModelNotFound", message |-> "Not Found", status |-> 404, statusCode |-> 0]

----------------------------------------------------------------------------
(* Sequence helpers *)

RECURSIVE SeqToSet(_)
SeqToSet(s) == IF s = <<>> THEN {} ELSE {Head(s)} \cup SeqToSet(Tail(s))

\* Array.prototype.findIndex: the first of the indices whose element satisfies
\* the predicate (hits), 0 when there is none
FindIndex(hits) ==
    IF hits = {} THEN 0 ELSE CHOOSE i \in hits : \A j \in hits : i <= j

\* Array.prototype.splice(index, 1)
Splice1(s, i) == SubSeq(s, 1, i-1) \o SubSeq(s, i+1, Len(s))

----------------------------------------------------------------------------
(* ModelWrapper *)

EmptyHooks == [t \in HookTypes |-> [k \in HookKeys |-> <<>>]]

\* constructor(model)
NewWrapper(name) ==
    [modelName |-> name,
     hooks |-> EmptyHooks,
     middlewares |-> [k \in MwKeys |-> Undef],
     methods |-> <<>>,
     statics |-> <<>>,
     hidden |-> <<>>]

\* the mongoose model of the wrapper in the default database, whatever params says
model_DefaultDb(w, params) ==
    [t |-> "model", mn |-> wrappers[w].modelName, db |-> "default"]

\* this.db(dbname).model(this.modelName): the mongoose model of the wrapper in
\* the named database, the default database when no name is given
model(w, params) ==
    [t |-> "model", mn |-> wrappers[w].modelName,
     db |-> IF params.db = Undef THEN "default" ELSE params.db]

\* hooks[type][action] after one push of callback
PushHook(hooks, type, action, callback) ==
    [hooks EXCEPT ![type][action] = Append(@, callback)]

\* addHook(type, action, callback) with action an array: one push per element
RECURSIVE addHookAll(_, _, _, _)
addHookAll(hooks, type, actions, callback) ==
    IF actions = <<>> THEN hooks
    ELSE addHookAll(PushHook(hooks, type, Head(actions), callback), type, Tail(actions), callback)

\* addHook(type, action, callback); a single action is the one-element array
addHook(w, type, actions, callback) ==
    [wrappers EXCEPT ![w].hooks = addHookAll(@, type, actions, callback)]

\* setMiddleware(action, callback) with action an array: one assignment per element
RECURSIVE setMiddlewareAll(_, _, _)
setMiddlewareAll(mws, actions, callback) ==
    IF actions = <<>> THEN mws
    ELSE setMiddlewareAll([mws EXCEPT ![Head(actions)] = callback], Tail(actions), callback)

\* getMiddleware preferring the middleware of `all` to the action's own
getMiddleware_AllFirst(w, action) ==
    IF wrappers[w].middlewares["all"] # Undef THEN wrappers[w].middlewares["all"]
    ELSE IF wrappers[w].middlewares[action] # Undef THEN wrappers[w].middlewares[action]
    ELSE "mwDefault"

\* getMiddleware(action)
getMiddleware(w, action) ==
    IF wrappers[w].middlewares[action] # Undef THEN wrappers[w].middlewares[action]
    ELSE IF wrappers[w].middlewares["all"] # Undef THEN wrappers[w].middlewares["all"]
    ELSE "mwDefault"

\* number of callbacks the application registered on a wrapper
RECURSIVE CountUser(_)
CountUser(s) == IF s = <<>> THEN 0 ELSE (IF Head(s) = "hide" THEN 0 ELSE 1) + CountUser(Tail(s))

RECURSIVE SumOver(_, _, _)
SumOver(hooks, type, keys) ==
    IF keys = {} THEN 0
    ELSE LET k == CHOOSE x \in keys : TRUE
         IN CountUser(hooks[type][k]) + SumOver(hooks, type, keys \ {k})

UserHookCount(w) ==
    SumOver(wrappers[w].hooks, "pre", HookKeys) + SumOver(wrappers[w].hooks, "post", HookKeys)

----------------------------------------------------------------------------
(* Restaman: the registry *)

\* a lookup that never finds a wrapper
getModelWrapper_Never(name) == 0

\* getModelWrapper(modelName): a registered wrapper of that name, 0 when none
getModelWrapper(name) ==
    LET i == FindIndex({k \in DOMAIN models : wrappers[models[k]].modelName = name})
    IN IF i = 0 THEN 0 ELSE models[i]

NoOp == [op |-> "none", arg |-> Undef, w |-> 0, threw |-> FALSE, before |-> <<>>]

\* addModel(model): constructs the wrapper, throws when the name is registered
AddModel(name) ==
    /\ IF getModelWrapper(name) # 0
       THEN /\ lastOp' = [op |-> "addModel", arg |-> name, w |-> 0, threw |-> TRUE, before |-> models]
            /\ UNCHANGED <<wrappers, models>>
       ELSE /\ Len(wrappers) < MaxWrappers
            /\ wrappers' = Append(wrappers, NewWrapper(name))
            /\ models' = Append(models, Len(wrappers) + 1)
            /\ lastOp' = [op |-> "addModel", arg |-> name, w |-> Len(wrappers) + 1,
                          threw |-> FALSE, before |-> models]
    /\ UNCHANGED <<router, store, rq, log, mapperLog, out, regs, parked, shadow>>

\* the registry after removeModel(modelName)
RemoveFrom(ms, name) ==
    LET index == FindIndex({k \in DOMAIN ms : wrappers[ms[k]].modelName = name})
    IN IF index # 0 THEN Splice1(ms, index) ELSE ms

\* removeModel(modelName)
RemoveModel(name) ==
    /\ models' = RemoveFrom(models, name)
    /\ lastOp' = [op |-> "removeModel", arg |-> name, w |-> 0, threw |-> FALSE, before |-> models]
    /\ UNCHANGED <<wrappers, router, store, rq, log, mapperLog, out, regs, parked, shadow>>

----------------------------------------------------------------------------
(* ModelWrapper: configuration calls *)

\* Object.assign({exposeName: method.name}, method) of a name or a descriptor
Descriptor(method) ==
    [name |-> method.name,
     exposeName |-> IF method.exposeName = Undef THEN method.name ELSE method.exposeName]

\* every exposed method is pushed
PutStatic_AlwaysPush(statics, method) == Append(statics, method)

\* the statics list after a successful exposeStatic: replace the descriptor of
\* the same exposeName, push otherwise
PutStatic(statics, method) ==
    LET index == FindIndex({k \in DOMAIN statics : statics[k].exposeName = method.exposeName})
    IN IF index # 0 THEN [statics EXCEPT ![index] = method] ELSE Append(statics, method)

\* no check of the method at registration
IsStaticFunction_Always(w, name) == TRUE

\* this.model().schema.statics[name] instanceof Function
IsStaticFunction(w, name) ==
    /\ wrappers[w].modelName \in MongooseModels
    /\ name \in SchemaStatics(wrappers[w].modelName)

\* this.model()[name] instanceof Function: a property of the model itself,
\* where mongoose puts the statics of the schema
IsModelFunction(w, name) ==
    /\ wrappers[w].modelName \in MongooseModels
    /\ name \in SchemaStatics(wrappers[w].modelName)

\* exposeMethod(method), called as op: by its name or through a shortcut
Exposing(w, method, op) ==
    /\ Len(wrappers[w].methods) < MaxMethods
    /\ IF IsModelFunction(w, Descriptor(method).name)
       THEN /\ wrappers' = [wrappers EXCEPT ![w].methods = Append(@, Descriptor(method))]
            /\ lastOp' = [op |-> op, arg |-> method, w |-> w, threw |-> FALSE,
                          before |-> wrappers[w].statics, methods |-> wrappers[w].methods]
       ELSE /\ lastOp' = [op |-> op, arg |-> method, w |-> w, threw |-> TRUE,
                          before |-> wrappers[w].statics, methods |-> wrappers[w].methods]
            /\ UNCHANGED wrappers
    /\ UNCHANGED <<models, router, store, rq, log, mapperLog, out, regs, parked, shadow>>

\* exposeMethod(method)
ExposeMethod(w, method) == Exposing(w, method, "exposeMethod")

\* static(method): this.exposeMethod(method); return this
Static(w, method) == Exposing(w, method, "static")

\* the registrations recorded for (wrapper, kind, key): kind a hook phase,
\* "middleware" or "static"
RegistrationsOf(rs, w, type, action) ==
    {r \in rs : r.w = w /\ r.type = type /\ r.action = action}

\* the record extended with the registration of a callback for each of the actions
RECURSIVE Recorded(_, _, _, _, _)
Recorded(rs, w, type, actions, callback) ==
    IF actions = <<>> THEN rs
    ELSE Recorded(rs \cup {[w |-> w, type |-> type, action |-> Head(actions), cb |-> callback,
                            n |-> Cardinality(RegistrationsOf(rs, w, type, Head(actions))) + 1,
                            built |-> router.builds]},
                  w, type, Tail(actions), callback)

\* exposeStatic(method)
ExposeStatic(w, method) ==
    /\ Cardinality({r \in regs : r.w = w /\ r.type = "static"}) < MaxExposes
    /\ IF IsStaticFunction(w, Descriptor(method).name)
       THEN /\ wrappers' = [wrappers EXCEPT ![w].statics = PutStatic(@, Descriptor(method))]
            /\ lastOp' = [op |-> "exposeStatic", arg |-> method, w |-> w,
                          threw |-> FALSE, before |-> wrappers[w].statics]
            /\ regs' = Recorded(regs, w, "static", <<Descriptor(method).exposeName>>, Descriptor(method).name)
       ELSE /\ lastOp' = [op |-> "exposeStatic", arg |-> method, w |-> w,
                          threw |-> TRUE, before |-> wrappers[w].statics]
            /\ UNCHANGED <<wrappers, regs>>
    /\ UNCHANGED <<models, router, store, rq, log, mapperLog, out, parked, shadow>>


\* pre(action, callback) and post(action, callback)
AddHook(w, type, actions, callback) ==
    /\ UserHookCount(w) + Len(actions) <= MaxHooks
    /\ wrappers' = addHook(w, type, actions, callback)
    /\ regs' = Recorded(regs, w, type, actions, callback)
    /\ UNCHANGED <<models, lastOp, router, store, rq, log, mapperLog, out, parked, shadow>>

\* middleware(action, callback), which is setMiddleware(action, callback)
SetMiddleware(w, actions, callback) ==
    /\ Cardinality({r \in regs : r.w = w /\ r.type = "middleware"}) + Len(actions) <= MaxMwSets
    /\ wrappers' = [wrappers EXCEPT ![w].middlewares = setMiddlewareAll(@, actions, callback)]
    /\ regs' = Recorded(regs, w, "middleware", actions, callback)
    /\ UNCHANGED <<models, lastOp, router, store, rq, log, mapperLog, out, parked, shadow>>

\* hide(args), args a field name or an array of field names
Hide(w, args) ==
    /\ Len(wrappers[w].hidden) + Len(args) <= MaxHidden
    /\ wrappers' = [wrappers EXCEPT ![w].hidden = @ \o args]
    /\ UNCHANGED <<models, lastOp, router, store, rq, log, mapperLog, out, regs, parked, shadow>>

----------------------------------------------------------------------------
(* Restaman: building the router *)

Route(verb, w, seg, mw, handler, method) ==
    [verb |-> verb, coll |-> CollectionName(wrappers[w].modelName), seg |-> seg,
     mw |-> mw, handler |-> handler, method |-> method, w |-> w]

\* the routes of the exposed static methods: no middleware in their chain
RECURSIVE StaticRoutes(_, _)
StaticRoutes(w, statics) ==
    IF statics = <<>> THEN <<>>
    ELSE <<Route("POST", w, Head(statics).exposeName, "none", "callStatic", Head(statics).name)>>
         \o StaticRoutes(w, Tail(statics))

\* the middleware a CRUD route captures when it is built
RouteMiddleware(w, action) == getMiddleware(w, action)

\* setupModelRoutes(modelWrapper, router): the routes in registration order
setupModelRoutes(w) ==
    StaticRoutes(w, wrappers[w].statics) \o
    << Route("OPTIONS", w, "", "none", "options", Undef),
       Route("GET", w, "count", RouteMiddleware(w, "count"), "count", Undef),
       Route("GET", w, ":id", RouteMiddleware(w, "find"), "findOne", Undef),
       Route("GET", w, "", RouteMiddleware(w, "find"), "find", Undef),
       Route("POST", w, "", RouteMiddleware(w, "create"), "create", Undef),
       Route("POST", w, ":id", RouteMiddleware(w, "update"), "update", Undef),
       Route("PUT", w, "", RouteMiddleware(w, "create"), "create", Undef),
       Route("DELETE", w, ":id", RouteMiddleware(w, "delete"), "delete", Undef) >>

RECURSIVE AllRoutes(_)
AllRoutes(ms) == IF ms = <<>> THEN <<>> ELSE setupModelRoutes(Head(ms)) \o AllRoutes(Tail(ms))

\* the wrappers setupModel reaches: all of them, or those up to the first whose
\* mongoose model is missing (model() throws there, after its hook was added)
Reached(ms) ==
    LET bad == FindIndex({k \in DOMAIN ms : wrappers[ms[k]].modelName \notin MongooseModels})
    IN IF bad = 0 THEN ms ELSE SubSeq(ms, 1, bad)

\* the field-hiding post hook setupModel registers on each wrapper it reaches
HideHooked(ws, reached) ==
    [w \in DOMAIN ws |->
        IF w \in SeqToSet(reached)
        THEN [ws[w] EXCEPT !.hooks = addHookAll(@, "post", HideActions, "hide")]
        ELSE ws[w]]

\* the registrations setupModel makes, wrapper by wrapper
RECURSIVE HideRegs(_, _)
HideRegs(rs, reached) ==
    IF reached = <<>> THEN rs
    ELSE HideRegs(Recorded(rs, Head(reached), "post", HideActions, "hide"), Tail(reached))

\* router(params): initRouter over every registered model
BuildRouter ==
    /\ router.builds < MaxBuilds
    /\ wrappers' = HideHooked(wrappers, Reached(models))
    /\ router' = IF Reached(models) = models /\ \A i \in 1..Len(models) : wrappers[models[i]].modelName \in MongooseModels
                 THEN [builds |-> router.builds + 1, routes |-> AllRoutes(models)]
                 ELSE [router EXCEPT !.builds = @ + 1]
    /\ regs' = HideRegs(regs, Reached(models))
    /\ UNCHANGED <<models, lastOp, store, rq, log, mapperLog, out, parked, shadow>>

----------------------------------------------------------------------------
(* Hooks *)

\* a field of a plain object, undefined when the object has no such key
GetField(obj, key) == IF key \in DOMAIN obj THEN obj[key] ELSE Undef

\* obj[key] = value on a plain object
SetField(obj, key, value) ==
    [k \in DOMAIN obj \cup {key} |-> IF k = key THEN value ELSE obj[k]]

\* removeHidden(doc): doc[field] = undefined for every hidden field
RECURSIVE removeHidden(_, _)
removeHidden(doc, hidden) ==
    IF hidden = <<>> THEN doc
    ELSE removeHidden(SetField(doc, Head(hidden), Undef), Tail(hidden))

\* the hook of setupModel on its payload: maps an array, handles a document
HideHook(w, data) ==
    IF wrappers[w].hidden = <<>> THEN data
    ELSE IF data.t = "docs"
         THEN [data EXCEPT !.docs = [i \in DOMAIN data.docs |-> removeHidden(data.docs[i], wrappers[w].hidden)]]
    ELSE IF data.t = "doc"
         THEN [data EXCEPT !.doc = removeHidden(@, wrappers[w].hidden)]
    ELSE data

\* filter.key = value in strict mode: a TypeError on null and on a primitive,
\* a new property on an object or an array
CanAssign(filter) == filter.t \in {"object", "array"}
AssignError == [name |-> "TypeError", message |-> "Cannot set property", status |-> 0, statusCode |-> 0]

\* a callback that gets copies of its payload and of the request
HookCall_ByValue(w, callback, data, body) ==
    [data |-> data, body |-> body, err |-> IF callback = "hThrow" THEN OopsError ELSE NoErr]

\* one callback called with (req, res, data): what it leaves of data and of
\* req.body, and the error it throws.
\*   hThrow  throws (restrictDelete of the tests)
\*   hSet    writes a field of its payload: of the filter of a query
\*           (filterUser), of a document or of each document of a list
\*           (updateContent, addMultipleHooks), of req.body when it gets no
\*           payload (addContent)
\*   hDb     sets params.db (the README's database switch)
\*   hide    the hook of setupModel
HookCall(w, callback, data, body) ==
    CASE callback = "hThrow" -> [data |-> data, body |-> body, err |-> OopsError]
      [] callback = "hide" -> [data |-> HideHook(w, data), body |-> body, err |-> NoErr]
      [] callback = "hDb" ->
            [data |-> IF data.t = "params" THEN [data EXCEPT !.db = "db2"] ELSE data,
             body |-> body, err |-> NoErr]
      [] OTHER ->
            [data |-> CASE data.t = "query" ->
                             IF CanAssign(data.filter)
                             THEN [data EXCEPT !.filter.v = SetField(@, "a", HookValue)] ELSE data
                        [] data.t = "doc" -> [data EXCEPT !.doc = SetField(@, "a", HookValue)]
                        [] data.t = "docs" ->
                             [data EXCEPT !.docs = [i \in DOMAIN data.docs |-> SetField(data.docs[i], "a", HookValue)]]
                        [] OTHER -> data,
             body |-> IF data.t = "undef" /\ body.t = "object"
                      THEN [body EXCEPT !.v = SetField(@, "a", HookValue)] ELSE body,
             err |-> IF data.t = "query" /\ ~CanAssign(data.filter) THEN AssignError ELSE NoErr]

\* the catch-all callbacks first
HooksToApply_AllFirst(w, type, action) ==
    wrappers[w].hooks[type]["all"] \o wrappers[w].hooks[type][action]

\* hooksToApply of applyHooks: the callbacks of (type, action), then of (type, all)
HooksToApply(w, type, action) ==
    wrappers[w].hooks[type][action] \o wrappers[w].hooks[type]["all"]

\* the record of one callback call: its arguments and the error it threw
HookRecord(type, action, callback, data, r) ==
    [type |-> type, action |-> action, cb |-> callback, data |-> data, err |-> r.err]

RECURSIVE RunHooks(_, _, _, _, _, _, _)

\* the first callback of the list returned r: the exception leaves forEach,
\* otherwise forEach goes on with the rest of the list
HookReturned(w, type, action, list, data, body, calls, r) ==
    IF r.err # NoErr
    THEN [data |-> data, body |-> body, err |-> r.err,
          calls |-> Append(calls, HookRecord(type, action, Head(list), data, r))]
    ELSE RunHooks(w, type, action, Tail(list), r.data, r.body,
                  Append(calls, HookRecord(type, action, Head(list), data, r)))

\* hooksToApply.forEach(hook => hook(req, res, data)): stops at the first throw
RunHooks(w, type, action, list, data, body, calls) ==
    IF list = <<>> THEN [data |-> data, body |-> body, err |-> NoErr, calls |-> calls]
    ELSE HookReturned(w, type, action, list, data, body, calls, HookCall(w, Head(list), data, body))

\* applyHooks(type, action, req, res, data)
applyHooks(w, type, action, data, body) ==
    RunHooks(w, type, action, HooksToApply(w, type, action), data, body, <<>>)

\* initModel: return model, after the post init hooks ran on it
initModelReturn(pre, m, post) ==
    [err |-> post.err, calls |-> pre.calls \o post.calls, body |-> post.body, model |-> m]

\* initModel: applyHooks('post', 'init', req, res, model)
initModelPost(w, pre, m) ==
    initModelReturn(pre, m, applyHooks(w, "post", "init", m, pre.body))

\* initModel: model = this.model(params), after the pre init hooks ran on params
initModelPre(w, pre) ==
    IF pre.err # NoErr
    THEN [err |-> pre.err, calls |-> pre.calls, body |-> pre.body, model |-> Undef]
    ELSE initModelPost(w, pre, model(w, pre.data))

\* initModel(req, res)
initModel(w, body) ==
    initModelPre(w, applyHooks(w, "pre", "init", [t |-> "params", db |-> Undef], body))

----------------------------------------------------------------------------
(* Query parsing *)

\* A JavaScript value as far as its kind matters: t is "object" (a plain
\* object, v its fields), "array", "null", "number"; v holds the own string
\* keys of an object or array
Json(t, v) == [t |-> t, v |-> v]
EmptyFilter == Json("object", <<>>)

\* JSON.parse of the strings clients send as a parameter; a string that is not
\* JSON makes it throw
JsonStrings == {"{\"a\":\"x\"}", "{}", "null", "5", "[]"}
JSONparse(str) ==
    CASE str = "{\"a\":\"x\"}" -> Json("object", [a |-> BodyValue])
      [] str = "{}" -> Json("object", <<>>)
      [] str = "null" -> Json("null", <<>>)
      [] str = "5" -> Json("number", <<>>)
      [] OTHER -> Json("array", <<>>)

\* parseJSON(str): {} when JSON.parse throws, what it returns otherwise
parseJSON(str) == IF str \in JsonStrings THEN JSONparse(str) ELSE EmptyFilter

\* parseQueryFilter(query): {} for null and for anything that is neither an
\* object nor a string, the object itself, parseJSON of a string
parseQueryFilter(query) ==
    CASE query.filter.t = "object" -> Json("object", query.filter.v)
      [] query.filter.t = "string" -> parseJSON(query.filter.v)
      [] OTHER -> EmptyFilter

\* NaN, kept apart from every number a parameter can give
NaN == 0 - 1

\* Number(value) of a parameter: of a string of digits its value, of the empty
\* string 0, of undefined and of any other string NaN
Number(value) ==
    CASE value = "" -> 0
      [] value = "2" -> 2
      [] value = "3" -> 3
      [] value = "5" -> 5
      [] OTHER -> NaN

\* value || other
OrElse(value, other) == IF value = "" \/ value = Undef THEN other ELSE value

\* formatters[key](query[key], query)
Formatted(key, query) ==
    CASE key = "sort" -> query["sort"]
      [] key = "skip" -> Number(OrElse(query["skip"], GetField(query, "start")))
      [] OTHER -> Number(query["limit"])

\* parseQueryOptions(query): one option per formatter whose parameter is defined
parseQueryOptions(query) ==
    [key \in {"sort", "skip", "limit"} \cap DOMAIN query |-> Formatted(key, query)]

\* parseQuery(query)
parseQuery(query) ==
    [t |-> "query", filter |-> parseQueryFilter(query), options |-> parseQueryOptions(query.rest)]

\* query.filter._id = id where the assignment is possible
ForceId(filter, id) == [filter EXCEPT !.v = SetField(@, "_id", id)]

\* the filter as the mapper reads it: find(null) is find({})
MapperFilter(filter) == IF CanAssign(filter) THEN filter.v ELSE <<>>

\* req.query as one object: its plain parameters and, when given, its filter parameter
QueryObject(query) ==
    IF query.filter.t = "absent" THEN query.rest ELSE SetField(query.rest, "filter", "raw")

----------------------------------------------------------------------------
(* Route handlers: the part that runs before the first promise settles *)

NoPend == [op |-> "none"]

\* the handler threw to its caller
Threw(calls, err, body) ==
    [calls |-> calls, thrown |-> <<err>>, nexted |-> <<>>, pend |-> NoPend, body |-> body]

\* the handler called next(err)
Nexted(calls, err, body) ==
    [calls |-> calls, thrown |-> <<>>, nexted |-> <<err>>, pend |-> NoPend, body |-> body]

\* the handler issued a mapper call and returned
Issued(calls, pend, body) ==
    [calls |-> calls, thrown |-> <<>>, nexted |-> <<>>, pend |-> pend, body |-> body]

\* a body check that lets every body through
IsRejectedBody_Never(body) == FALSE

\* req.body instanceof Array || !req.body instanceof Object
\* (! binds to req.body: the right operand is a boolean instanceof Object, false)
IsRejectedBody(body) == body.t = "array" \/ FALSE

\* the mapper call of create, findOne, find and count, issued after the pre
\* hooks of the action returned pre
IssueAfterPre(im, pre, pend) ==
    IF pre.err # NoErr THEN Threw(im.calls \o pre.calls, pre.err, pre.body)
    ELSE Issued(im.calls \o pre.calls, pend, pre.body)

\* create after the body check: model.create(req.body)
createPre(im, pre) ==
    IssueAfterPre(im, pre, [op |-> "create", step |-> "create", model |-> im.model, arg |-> pre.body])

createInit(w, im) ==
    IF im.err # NoErr THEN Threw(im.calls, im.err, im.body)
    ELSE createPre(im, applyHooks(w, "pre", "create", [t |-> "undef"], im.body))

\* create(req, res, next)
create(w, body) ==
    IF IsRejectedBody(body) THEN Nexted(<<>>, ValidationError, body)
    ELSE createInit(w, initModel(w, body))

\* the shape of findOne, find and count up to the mapper call:
\* model[op](query.filter, ...) after the pre hooks ran on query
LookupPre(im, pre, action, op) ==
    IssueAfterPre(im, pre, [op |-> op, step |-> action, model |-> im.model,
                            arg |-> MapperFilter(pre.data.filter)])

LookupInit(w, im, action, op, query) ==
    IF im.err # NoErr THEN Threw(im.calls, im.err, im.body)
    ELSE LookupPre(im, applyHooks(w, "pre", action, query, im.body), action, op)

Lookup(w, action, op, query, body) == LookupInit(w, initModel(w, body), action, op, query)

\* findOne after initModel: query.filter._id = req.params.id, then as find
findOneInit(w, im, id, query) ==
    IF im.err = NoErr /\ ~CanAssign(query.filter) THEN Threw(im.calls, AssignError, im.body)
    ELSE LookupInit(w, im, "findOne", "findOne", [query EXCEPT !.filter = ForceId(@, id)])

\* findOne(req, res, next): the filter is forced to the route id
findOne(w, id, query, body) == findOneInit(w, initModel(w, body), id, parseQuery(query))

\* find(req, res, next)
find(w, query, body) == Lookup(w, "find", "find", parseQuery(query), body)

\* count(req, res, next): the whole query string is the filter
count(w, query, body) ==
    Lookup(w, "count", "count",
           parseQuery([filter |-> [t |-> "object", v |-> QueryObject(query)], rest |-> <<>>]), body)

\* update and delete: this.findById(model, req.params.id)
ByIdInit(im, id) ==
    IF im.err # NoErr THEN Threw(im.calls, im.err, im.body)
    ELSE Issued(im.calls,
                [op |-> "findOne", step |-> "findById", model |-> im.model, arg |-> [_id |-> id]],
                im.body)

\* update(req, res, next) and delete(req, res, next) up to findById
ById(w, id, body) == ByIdInit(initModel(w, body), id)

\* the exposed static methods of the tests: (param1, param2) => {message}
StaticResult(method, params) == [message |-> <<method, params[1], params[2]>>]

\* getParamNames(_method): the declared parameters of the static methods of the tests
ParamNames(method) == <<"param1", "param2">>

\* the i-th argument is the i-th value of the body, in the order its keys were sent
BindParams_Positional(names, body) ==
    [i \in DOMAIN names |-> IF i <= Len(body.keys) THEN body.v[body.keys[i]] ELSE Undef]

\* getParamNames(_method).map(paramName => req.body[paramName])
BindParams(names, body) == [i \in DOMAIN names |-> GetField(body.v, names[i])]

\* callStatic: model[method].apply(model, params) after the pre static hooks
callStaticPre(im, pre, method) ==
    IF pre.err # NoErr THEN Threw(im.calls \o pre.calls, pre.err, pre.body)
    ELSE IF method \notin SchemaStatics(im.model.mn)
         THEN Nexted(im.calls \o pre.calls, [name |-> "TypeError", message |-> "not a function",
                                              status |-> 0, statusCode |-> 0], pre.body)
         ELSE Issued(im.calls \o pre.calls,
                     [op |-> "static", step |-> "static", model |-> im.model,
                      arg |-> StaticResult(method, BindParams(ParamNames(method), pre.body))],
                     pre.body)

callStaticInit(w, im, method) ==
    IF im.err # NoErr THEN Threw(im.calls, im.err, im.body)
    ELSE callStaticPre(im, applyHooks(w, "pre", "static", [t |-> "name", name |-> method], im.body), method)

\* callStatic(method, req, res, next)
callStatic(w, method, body) == callStaticInit(w, initModel(w, body), method)

----------------------------------------------------------------------------
(* The mapper: one collection per database and model, in insertion order *)

Collection(st, m) == st[m.db][m.mn]

\* a document matches a filter when every key of the filter is a field with that value
Matches(doc, filter) ==
    \A k \in DOMAIN filter : k \in DOMAIN doc /\ doc[k] = filter[k]

\* _id is a Number in the schemas: any other value of _id in a filter fails to cast
CastFails(filter) == "_id" \in DOMAIN filter /\ filter["_id"] \notin Ids

Rejected(err, st) == [ok |-> FALSE, err |-> err, result |-> [t |-> "none"], store |-> st]
Resolved(result, st) == [ok |-> TRUE, err |-> NoErr, result |-> result, store |-> st]

\* what a mapper call does when it is executed on the store
MapperExec(pend, st) ==
    LET coll == Collection(st, pend.model)
        put(c) == [st EXCEPT ![pend.model.db][pend.model.mn] = c]
    IN CASE pend.op = "create" ->
              IF pend.arg.t # "object" THEN Rejected(MapperError, st)
              ELSE IF GetField(pend.arg.v, "_id") \notin Ids THEN Rejected(CastError, st)
              ELSE IF \E i \in DOMAIN coll : coll[i]["_id"] = pend.arg.v["_id"] THEN Rejected(MapperError, st)
              ELSE LET doc == [_id |-> pend.arg.v["_id"], a |-> GetField(pend.arg.v, "a")]
                   IN Resolved([t |-> "doc", doc |-> doc], put(Append(coll, doc)))
         [] pend.op = "findOne" ->
              IF CastFails(pend.arg) THEN Rejected(CastError, st)
              ELSE LET i == FindIndex({k \in DOMAIN coll : Matches(coll[k], pend.arg)})
                   IN IF i = 0 THEN Resolved([t |-> "null"], st)
                      ELSE Resolved([t |-> "doc", doc |-> coll[i]], st)
         [] pend.op = "find" ->
              IF CastFails(pend.arg) THEN Rejected(CastError, st)
              ELSE Resolved([t |-> "docs", docs |-> SelectSeq(coll, LAMBDA d : Matches(d, pend.arg))], st)
         [] pend.op = "count" ->
              IF CastFails(pend.arg) THEN Rejected(CastError, st)
              ELSE Resolved([t |-> "count", count |-> Len(SelectSeq(coll, LAMBDA d : Matches(d, pend.arg)))], st)
         [] pend.op = "save" ->
              Resolved([t |-> "doc", doc |-> pend.arg],
                       put([i \in DOMAIN coll |->
                              IF coll[i]["_id"] = pend.arg["_id"] THEN [_id |-> pend.arg["_id"], a |-> pend.arg["a"]]
                              ELSE coll[i]]))
         [] pend.op = "remove" ->
              Resolved([t |-> "doc", doc |-> pend.arg],
                       put(SelectSeq(coll, LAMBDA d : d["_id"] # pend.arg["_id"])))
         [] OTHER -> Resolved([t |-> "result", result |-> pend.arg], st)

----------------------------------------------------------------------------
(* Route handlers: the callbacks of the promise chains *)

\* the chain ended in res.send(data)
Sent(calls, data) == [calls |-> calls, sent |-> <<data>>, nexted |-> <<>>, pend |-> NoPend]

\* a catch that hands next another error than the one it got
CatchNext_Wrapped(err) == [err EXCEPT !.name = "Error", !.message = "request failed"]

\* .catch(next), and count's .catch((err) => next(err)): what next is called with
CatchNext(err) == err

\* the chain ended in .catch(next)
Caught(calls, err) == [calls |-> calls, sent |-> <<>>, nexted |-> <<CatchNext(err)>>, pend |-> NoPend]

\* the chain returned another promise
Chained(calls, pend) == [calls |-> calls, sent |-> <<>>, nexted |-> <<>>, pend |-> pend]

\* res.send(data) after the post hooks returned post
SendAfterPost(post, data) ==
    IF post.err # NoErr THEN Caught(post.calls, post.err)
    ELSE Sent(post.calls, [status |-> 200, body |-> data])

\* post hooks of the action on the result, then res.send of the document(s)
\* the hooks worked on
PostAndSendData(post) == SendAfterPost(post, post.data)

PostAndSend(w, action, data, body) ==
    PostAndSendData(applyHooks(w, "post", action, data, body))

\* the document as it was found
Assign_Nothing(doc, body) == doc

\* Object.assign(doc, req.body)
Assign(doc, body) ==
    [k \in DOMAIN doc |-> IF k \in DOMAIN body THEN body[k] ELSE doc[k]]

\* update and delete after findById and the pre hooks: doc.save() / doc.remove()
SaveOrRemove(r, pre) ==
    IF pre.err # NoErr THEN Caught(pre.calls, pre.err)
    ELSE IF r.handler = "update"
    THEN Chained(pre.calls, [op |-> "save", step |-> "saved", model |-> r.pend.model,
                             arg |-> Assign(pre.data.doc, pre.body.v)])
    ELSE Chained(pre.calls, [op |-> "remove", step |-> "saved", model |-> r.pend.model,
                             arg |-> pre.data.doc])

\* applyHooks(type, action, req, res, data) called with arguments after data:
\* the function declares none and passes its hooks (req, res, data) only
DataArgument(args) == Head(args)

\* the then-callback that runs when the pending promise resolves with result
Then(w, r, result) ==
    CASE r.pend.step = "create" -> PostAndSend(w, "create", result, r.body)
      [] r.pend.step = "findOne" ->
            IF result.t = "null" THEN Caught(<<>>, NotFoundError)
            ELSE PostAndSend(w, "findOne", result, r.body)
      [] r.pend.step = "find" -> PostAndSend(w, "find", result, r.body)
      [] r.pend.step = "count" ->
            SendAfterPost(applyHooks(w, "post", "count", result, r.body), result)
      [] r.pend.step = "findById" ->
            IF result.t = "null" THEN Caught(<<>>, ModelNotFound)
            ELSE SaveOrRemove(r, applyHooks(w, "pre", r.handler, result, r.body))
      [] r.pend.step = "saved" -> PostAndSend(w, r.handler, result, r.body)
      [] OTHER ->
            SendAfterPost(applyHooks(w, "post", "static",
                                     DataArgument(<<[t |-> "name", name |-> r.method], result>>), r.body),
                          result)

----------------------------------------------------------------------------
(* Requests through the router *)

NoRq ==
    [stage |-> "idle", verb |-> Undef, coll |-> Undef, seg |-> Undef, body |-> [t |-> "none"],
     query |-> Undef, route |-> 0, handler |-> Undef, method |-> Undef, w |-> 0, pend |-> NoPend]

NoOut == [mw |-> <<>>, ran |-> FALSE, sent |-> <<>>, nexted |-> <<>>, thrown |-> <<>>, store0 |-> <<>>]

\* a route matches a request by verb and path; :id matches any segment
RouteMatches(r, req) ==
    /\ r.verb = req.verb
    /\ r.coll = req.coll
    /\ \/ r.seg = req.seg
       \/ r.seg = ":id" /\ req.seg # ""
\* a router that gives a request to the last route that matches it
FirstMatch_Last(req) ==
    LET hits == {k \in DOMAIN router.routes : RouteMatches(router.routes[k], req)}
    IN IF hits = {} THEN 0 ELSE CHOOSE i \in hits : \A j \in hits : j <= i


\* the first route, in registration order, that matches the request
FirstMatch(req) == FindIndex({k \in DOMAIN router.routes : RouteMatches(router.routes[k], req)})

\* whether a middleware continues the request: restrictCount of the tests
\* answers 401 itself, the others call next()
Continues(mw) == mw # "mwDeny"

\* the handler of a route, called with (req, res, next)
RunHandler(r, req) ==
    CASE r.handler = "create" -> create(r.w, req.body)
      [] r.handler = "findOne" -> findOne(r.w, req.seg, req.query, req.body)
      [] r.handler = "find" -> find(r.w, req.query, req.body)
      [] r.handler = "count" -> count(r.w, req.query, req.body)
      [] r.handler = "update" -> ById(r.w, req.seg, req.body)
      [] r.handler = "delete" -> ById(r.w, req.seg, req.body)
      [] OTHER -> callStatic(r.w, r.method, req.body)

\* the record of a mapper call and of how it settled
Logged(pend, res) ==
    [op |-> pend.op, step |-> pend.step, model |-> pend.model, arg |-> pend.arg, res |-> res,
     err |-> NoErr]

Settled(mlog, res) ==
    IF mlog = <<>> THEN mlog ELSE [mlog EXCEPT ![Len(mlog)].res = res]

\* the request as the matched route i sees it
Matched(req, i, r) ==
    [stage |-> "done", verb |-> req.verb, coll |-> req.coll, seg |-> req.seg,
     body |-> req.body, query |-> req.query, route |-> i, handler |-> r.handler,
     method |-> r.method, w |-> r.w, pend |-> NoPend]

\* the handler of the route returned h
Handled(base, ran, h) ==
    /\ rq' = [base EXCEPT !.stage = IF h.pend = NoPend THEN "done" ELSE "await",
                          !.body = h.body, !.pend = h.pend]
    /\ out' = [NoOut EXCEPT !.mw = ran, !.ran = TRUE, !.nexted = h.nexted,
                            !.thrown = h.thrown, !.store0 = store]
    /\ log' = h.calls
    /\ mapperLog' = IF h.pend = NoPend \/ h.pend.op = "static" THEN <<>>
                    ELSE <<Logged(h.pend, "pending")>>

\* a route chain that looks its middleware up when the request arrives
BoundMiddleware_Live(r) ==
    IF r.mw = "none" THEN "none"
    ELSE getMiddleware(r.w, IF r.handler = "findOne" THEN "find" ELSE r.handler)

\* the middleware in the chain of a route: the function router.get/post/put/
\* delete was given when the route was built
BoundMiddleware(r) == r.mw

\* the chain of route r runs: its middleware if it has one, then its handler
Serve(req, r, base) ==
    IF r.handler = "options"
    THEN /\ rq' = base
         /\ out' = [NoOut EXCEPT !.ran = TRUE, !.sent = <<[status |-> 204, body |-> [t |-> "empty"]]>>,
                                 !.store0 = store]
         /\ log' = <<>>
         /\ mapperLog' = <<>>
    ELSE IF BoundMiddleware(r) # "none" /\ ~Continues(BoundMiddleware(r))
    THEN /\ rq' = base
         /\ out' = [NoOut EXCEPT !.mw = <<BoundMiddleware(r)>>, !.sent = <<[status |-> 401, body |-> [t |-> "message"]]>>,
                                 !.store0 = store]
         /\ log' = <<>>
         /\ mapperLog' = <<>>
    ELSE Handled(base, IF BoundMiddleware(r) = "none" THEN <<>> ELSE <<BoundMiddleware(r)>>, RunHandler(r, req))

\* a request reaches its route: the chain of the route runs up to the first
\* promise it has to wait for
Dispatch(req) ==
    /\ \E i \in {FirstMatch(req)} :
          /\ i # 0
          /\ Serve(req, router.routes[i], Matched(req, i, router.routes[i]))
    /\ UNCHANGED <<wrappers, models, lastOp, router, store, regs, parked, shadow>>

\* what a client that got the response c to its request r expects the
\* collection to hold from then on: the document it created, the fields it
\* updated laid over the document, the document it deleted gone
Asked(docs, r, c) ==
    IF c.sent = <<>> \/ r.body.t # "object" THEN docs
    ELSE CASE r.handler = "create" ->
                docs \cup {[_id |-> GetField(r.body.v, "_id"), a |-> GetField(r.body.v, "a")]}
           [] r.handler = "update" ->
                {IF d["_id"] = r.seg THEN [_id |-> d["_id"], a |-> IF "a" \in DOMAIN r.body.v THEN r.body.v["a"] ELSE d["a"]]
                 ELSE d : d \in docs}
           [] r.handler = "delete" -> {d \in docs : d["_id"] # r.seg}
           [] OTHER -> docs

\* the last mapper call of the record rejected with err
Failed(mlog, err) ==
    IF mlog = <<>> THEN mlog ELSE [mlog EXCEPT ![Len(mlog)].res = "rejected", ![Len(mlog)].err = err]

\* the pending promise rejected with err: the then-callbacks are skipped
Rejects(err) ==
    /\ rq' = [rq EXCEPT !.stage = "done", !.pend = NoPend]
    /\ out' = [out EXCEPT !.nexted = @ \o <<CatchNext(err)>>]
    /\ mapperLog' = Failed(mapperLog, err)

\* the mapper call was executed (e) and the then-callback returned c
Continued(e, c) ==
    /\ store' = e.store
    /\ shadow' = [shadow EXCEPT ![rq.coll] = Asked(@, rq, c)]
    /\ rq' = [rq EXCEPT !.stage = IF c.pend = NoPend THEN "done" ELSE "await", !.pend = c.pend]
    /\ out' = [out EXCEPT !.sent = @ \o c.sent, !.nexted = @ \o c.nexted]
    /\ log' = log \o c.calls
    /\ mapperLog' = IF c.pend = NoPend THEN Settled(mapperLog, e.result.t)
                    ELSE Append(Settled(mapperLog, e.result.t), Logged(c.pend, "pending"))

\* the mapper call was executed with outcome e: .catch(next) or the then-callback
Executed(e) ==
    IF ~e.ok
    THEN /\ Rejects(e.err)
         /\ UNCHANGED <<store, log, shadow>>
    ELSE Continued(e, Then(rq.w, rq, e.result))

\* the pending promise settles with what the mapper did
MapperResolve ==
    /\ rq.stage = "await"
    /\ Executed(MapperExec(rq.pend, store))
    /\ UNCHANGED <<wrappers, models, lastOp, router, regs, parked>>

\* the pending mapper call fails in the driver: the chain goes to .catch(next)
MapperReject ==
    /\ rq.stage = "await"
    /\ rq.pend.op # "static"
    /\ Rejects(MapperError)
    /\ UNCHANGED <<wrappers, models, lastOp, router, store, log, regs, parked, shadow>>

\* no second request
NoParked == [rq |-> NoRq, out |-> NoOut, log |-> <<>>, mapperLog |-> <<>>]

\* the event loop turns to the other request: the one served waits for its
\* promise (or is idle), the one parked gets its turn
Switch ==
    /\ rq.stage \in {"idle", "await"}
    /\ parked.rq.stage \in {"idle", "await"}
    /\ rq.stage # parked.rq.stage \/ rq.stage = "await"
    /\ parked' = [rq |-> rq, out |-> out, log |-> log, mapperLog |-> mapperLog]
    /\ rq' = parked.rq
    /\ out' = parked.out
    /\ log' = parked.log
    /\ mapperLog' = parked.mapperLog
    /\ UNCHANGED <<wrappers, models, lastOp, router, store, regs, shadow>>

\* the request is over: its objects are dropped
EndRequest ==
    /\ rq.stage = "done"
    /\ rq' = NoRq
    /\ out' = NoOut
    /\ log' = <<>>
    /\ mapperLog' = <<>>
    /\ UNCHANGED <<wrappers, models, lastOp, router, store, regs, parked, shadow>>

----------------------------------------------------------------------------
(* Inputs *)

ObjectBody(v) == [t |-> "object", v |-> v]
EmptyObject == [k \in {} |-> Undef]
ArrayBody == [t |-> "array", v |-> EmptyObject]
StringBody == [t |-> "string", v |-> EmptyObject]
NoQuery == [filter |-> [t |-> "absent", v |-> EmptyObject], rest |-> EmptyObject]

\* the ids clients create documents with; the other ids stay absent
CreateIds == {"1"}

CreateBodies ==
    {ArrayBody, StringBody}
    \cup {ObjectBody([_id |-> i, a |-> BodyValue]) : i \in CreateIds}
    \cup {ObjectBody([_id |-> i]) : i \in CreateIds}
UpdateBodies == {ObjectBody(EmptyObject), ObjectBody([a |-> BodyValue])}
\* a JSON object with the order its keys were sent in
OrderedBody(v, keys) == [t |-> "object", v |-> v, keys |-> keys]
StaticBodies ==
    {OrderedBody([param1 |-> "p1", param2 |-> "p2"], <<"param1", "param2">>),
     OrderedBody([param1 |-> "p1", param2 |-> "p2"], <<"param2", "param1">>),
     OrderedBody([param2 |-> "p2"], <<"param2">>)}
FilterQuery == [filter |-> [t |-> "object", v |-> [a |-> BodyValue]], rest |-> EmptyObject]
PlainQuery == [filter |-> [t |-> "absent", v |-> EmptyObject], rest |-> [a |-> BodyValue]]
Collections == {CollectionName(mn) : mn \in MongooseModels}

Request(verb, coll, seg, body, query) ==
    [verb |-> verb, coll |-> coll, seg |-> seg, body |-> body, query |-> query]

Requests ==
    {Request("GET", c, s, ObjectBody(EmptyObject), q) : c \in Collections, s \in {""} \cup Ids, q \in {NoQuery, FilterQuery}}
    \cup {Request("GET", c, "count", ObjectBody(EmptyObject), q) : c \in Collections, q \in {NoQuery, PlainQuery}}
    \cup {Request("POST", c, "", b, NoQuery) : c \in Collections, b \in CreateBodies}
    \cup {Request("PUT", c, "", b, NoQuery) : c \in Collections, b \in {ArrayBody} \cup {ObjectBody([_id |-> i]) : i \in CreateIds}}
    \cup {Request("POST", c, s, b, NoQuery) : c \in Collections, s \in Ids, b \in UpdateBodies}
    \cup {Request("POST", c, s, b, NoQuery) : c \in Collections, s \in {"exposedStaticMethod"}, b \in StaticBodies}
    \cup {Request("DELETE", c, s, ObjectBody(EmptyObject), NoQuery) : c \in Collections, s \in Ids}
    \cup {Request("OPTIONS", c, "", ObjectBody(EmptyObject), NoQuery) : c \in Collections}

\* the requests of a client of one collection without hooks: two ids, documents
\* with and without the field the filter asks for
OtherValue == "y"
CrudRequests ==
    {Request("GET", "tests", "", ObjectBody(EmptyObject), q) : q \in {NoQuery, FilterQuery}}
    \cup {Request("GET", "tests", s, ObjectBody(EmptyObject), NoQuery) : s \in Ids}
    \cup {Request("GET", "tests", "count", ObjectBody(EmptyObject), q) : q \in {NoQuery, FilterQuery, PlainQuery}}
    \cup {Request("POST", "tests", "", ObjectBody([_id |-> i, a |-> OtherValue]), NoQuery) : i \in Ids}
    \cup {Request("POST", "tests", "", ObjectBody([_id |-> i]), NoQuery) : i \in Ids}
    \cup {Request("POST", "tests", s, b, NoQuery) : s \in Ids, b \in UpdateBodies}
    \cup {Request("DELETE", "tests", s, ObjectBody(EmptyObject), NoQuery) : s \in Ids}

----------------------------------------------------------------------------
(* Specifications *)

Init ==
    /\ wrappers = <<>>
    /\ models = <<>>
    /\ lastOp = NoOp
    /\ router = [builds |-> 0, routes |-> <<>>]
    /\ store = [db \in Dbs |-> [mn \in MongooseModels |-> <<>>]]
    /\ rq = NoRq
    /\ log = <<>>
    /\ mapperLog = <<>>
    /\ out = NoOut
    /\ regs = {}
    /\ parked = NoParked
    /\ shadow = [c \in Collections |-> {}]

\* no request is in flight
Idle == rq.stage = "idle"

\* the router is not built yet: the application is being configured
Setup == Idle /\ router.builds = 0

\* one model with pre and post hooks, configured, then served
Next ==
    \/ Setup /\ AddModel("Test")
    \/ Setup /\ \E w \in DOMAIN wrappers, type \in HookTypes, k \in HookKeys \ {"static"}, cb \in {"hThrow", "hSet"} :
                    AddHook(w, type, <<k>>, cb)
    \/ Idle /\ BuildRouter
    \/ Idle /\ \E req \in Requests : Dispatch(req)
    \/ MapperResolve
    \/ MapperReject
    \/ EndRequest

Spec == Init /\ [][Next]_vars

\* one model with hidden fields and mutating post hooks, added before or after
\* the router is built
NextHide ==
    \/ Setup /\ AddModel("Test")
    \/ Idle /\ \E w \in DOMAIN wrappers, k \in HookKeys \ {"init", "static"} : AddHook(w, "post", <<k>>, "hSet")
    \/ Idle /\ \E w \in DOMAIN wrappers : Hide(w, <<"a">>)
    \/ Idle /\ BuildRouter
    \/ Idle /\ \E req \in Requests : Dispatch(req)
    \/ MapperResolve
    \/ MapperReject
    \/ EndRequest

SpecHide == Init /\ [][NextHide]_vars

\* one model without hooks or hidden fields, served to one client
NextCrud ==
    \/ Setup /\ AddModel("Test")
    \/ Idle /\ BuildRouter
    \/ Idle /\ \E req \in CrudRequests : Dispatch(req)
    \/ MapperResolve
    \/ MapperReject
    \/ EndRequest

SpecCrud == Init /\ [][NextCrud]_vars

\* one model with middlewares and an exposed static method, configured, then served
NextRoute ==
    \/ Setup /\ AddModel("Test")
    \/ Setup /\ \E w \in DOMAIN wrappers, k \in {"count", "find", "findOne", "static", "all"}, mw \in MwCallbacks :
                    SetMiddleware(w, <<k>>, mw)
    \/ Setup /\ \E w \in DOMAIN wrappers, mw \in MwCallbacks : SetMiddleware(w, <<"create", "update">>, mw)
    \/ Setup /\ \E w \in DOMAIN wrappers :
                    ExposeStatic(w, [name |-> "exposedStaticMethod", exposeName |-> Undef])
    \/ Idle /\ BuildRouter
    \/ Idle /\ \E req \in Requests : Dispatch(req)
    \/ MapperResolve
    \/ MapperReject
    \/ EndRequest

SpecRoute == Init /\ [][NextRoute]_vars

\* requests of a client of an application that goes on configuring its
\* wrapper after the router is built
LateRequests ==
    {Request("GET", "tests", "", ObjectBody(EmptyObject), NoQuery)}
    \cup {Request("POST", "tests", s, OrderedBody([param1 |-> "p1", param2 |-> "p2"], <<"param1", "param2">>), NoQuery) :
             s \in {"exposedStaticMethod"}}

\* one model whose middlewares, static methods and hooks are configured before
\* and after the router is built
NextLate ==
    \/ Setup /\ AddModel("Test")
    \/ Idle /\ \E w \in DOMAIN wrappers, mw \in MwCallbacks : SetMiddleware(w, <<"find">>, mw)
    \/ Idle /\ \E w \in DOMAIN wrappers :
                   ExposeStatic(w, [name |-> "exposedStaticMethod", exposeName |-> Undef])
    \/ Idle /\ \E w \in DOMAIN wrappers : AddHook(w, "pre", <<"find">>, "hSet")
    \/ Idle /\ BuildRouter
    \/ Idle /\ \E req \in LateRequests : Dispatch(req)
    \/ MapperResolve
    \/ MapperReject
    \/ EndRequest

SpecLate == Init /\ [][NextLate]_vars

\* requests of two clients, one of each collection
ConcRequests ==
    {Request("GET", c, "", ObjectBody(EmptyObject), q) : c \in Collections, q \in {NoQuery, FilterQuery}}
    \cup {Request("POST", c, "", ObjectBody([_id |-> i, a |-> BodyValue]), NoQuery) : c \in Collections, i \in CreateIds}

\* two models, each with its own init hooks, served to two clients
\* whose requests are in flight together
NextConc ==
    \/ Setup /\ \E name \in MongooseModels : AddModel(name)
    \/ Setup /\ \E w \in DOMAIN wrappers : AddHook(w, "pre", <<"init">>, "hDb")
    \/ Setup /\ \E w \in DOMAIN wrappers : AddHook(w, "post", <<"init">>, "hSet")
    \/ Idle /\ BuildRouter
    \/ Idle /\ \E req \in ConcRequests : Dispatch(req)
    \/ Switch
    \/ MapperResolve
    \/ MapperReject
    \/ EndRequest

SpecConc == Init /\ [][NextConc]_vars

\* one model with an exposed static method and hooks on the static action
NextMethods ==
    \/ Setup /\ AddModel("Test")
    \/ Setup /\ \E w \in DOMAIN wrappers :
                    ExposeStatic(w, [name |-> "exposedStaticMethod", exposeName |-> Undef])
    \/ Setup /\ \E w \in DOMAIN wrappers, type \in HookTypes, cb \in {"hThrow", "hSet"} :
                    AddHook(w, type, <<"static">>, cb)
    \/ Idle /\ BuildRouter
    \/ Idle /\ \E b \in StaticBodies : Dispatch(Request("POST", "tests", "exposedStaticMethod", b, NoQuery))
    \/ MapperResolve
    \/ EndRequest

SpecMethods == Init /\ [][NextMethods]_vars

\* what applications pass to exposeMethod and to the static shortcut
MethodArgs ==
    {[name |-> n, exposeName |-> Undef] : n \in {"exposedStaticMethod", "instanceMethod", "missingMethod"}}

\* the models of the tests with methods and static methods exposed on them,
\* by exposeStatic, exposeMethod and the static shortcut, and the router built
NextExpose ==
    \/ Setup /\ \E name \in MongooseModels : AddModel(name)
    \/ Setup /\ \E w \in DOMAIN wrappers :
                    ExposeStatic(w, [name |-> "exposedStaticMethod2", exposeName |-> "exposedStaticMethod"])
    \/ Setup /\ \E w \in DOMAIN wrappers, method \in MethodArgs : ExposeMethod(w, method)
    \/ Setup /\ \E w \in DOMAIN wrappers, method \in MethodArgs : Static(w, method)
    \/ BuildRouter

SpecExpose == Init /\ [][NextExpose]_vars

\* the parameters of a query string other than filter: each absent or given
PlainParameters ==
    {r \in UNION {[S -> {"title", "", "2", "3", "5"}] : S \in SUBSET {"sort", "skip", "limit", "start"}} :
        /\ "sort" \in DOMAIN r => r["sort"] = "title"
        /\ "skip" \in DOMAIN r => r["skip"] \in {"", "5"}
        /\ "limit" \in DOMAIN r => r["limit"] = "3"
        /\ "start" \in DOMAIN r => r["start"] = "2"}

\* the filter parameter: absent, null, an object (filter[a]=x), a string
FilterParameters ==
    {[t |-> "absent", v |-> <<>>], [t |-> "null", v |-> <<>>], [t |-> "object", v |-> [a |-> BodyValue]]}
    \cup {[t |-> "string", v |-> s] : s \in JsonStrings \cup {"oops"}}

QueryStrings == {[filter |-> f, rest |-> r] : f \in FilterParameters, r \in PlainParameters}

\* a query string is about to be parsed
InitQuery ==
    /\ wrappers = <<>>
    /\ models = <<>>
    /\ lastOp \in {[op |-> "query", arg |-> q, threw |-> FALSE, result |-> <<>>] : q \in QueryStrings}
    /\ router = [builds |-> 0, routes |-> <<>>]
    /\ store = [db \in Dbs |-> [mn \in MongooseModels |-> <<>>]]
    /\ rq = NoRq
    /\ log = <<>>
    /\ mapperLog = <<>>
    /\ out = NoOut
    /\ regs = {}
    /\ parked = NoParked
    /\ shadow = [c \in Collections |-> {}]

\* the query string went through parseQueryOptions
ParseOptions ==
    /\ lastOp.op = "query"
    /\ lastOp' = [lastOp EXCEPT !.op = "parseQueryOptions", !.result = parseQueryOptions(lastOp.arg.rest)]
    /\ UNCHANGED <<wrappers, models, router, store, rq, log, mapperLog, out, regs, parked, shadow>>

\* the query string went through parseQueryFilter
ParseFilter ==
    /\ lastOp.op = "query"
    /\ lastOp' = [lastOp EXCEPT !.op = "parseQueryFilter", !.result = parseQueryFilter(lastOp.arg)]
    /\ UNCHANGED <<wrappers, models, router, store, rq, log, mapperLog, out, regs, parked, shadow>>

\* findOne set the route id on the parsed filter
ForceFilterId ==
    /\ lastOp.op = "parseQueryFilter"
    /\ \E id \in Ids :
          lastOp' = [lastOp EXCEPT !.op = "findOne",
                                   !.threw = ~CanAssign(lastOp.result),
                                   !.result = IF CanAssign(lastOp.result) THEN ForceId(lastOp.result, id)
                                              ELSE lastOp.result]
    /\ UNCHANGED <<wrappers, models, router, store, rq, log, mapperLog, out, regs, parked, shadow>>

NextQuery == ParseOptions \/ ParseFilter \/ ForceFilterId

SpecQuery == InitQuery /\ [][NextQuery]_vars

\* the registry alone: models added and removed in any order
NextRegistry ==
    \/ \E name \in ModelNames : AddModel(name)
    \/ \E name \in ModelNames : RemoveModel(name)

SpecRegistry == Init /\ [][NextRegistry]_vars

\* what applications pass to exposeStatic: a name, or a descriptor with an exposeName
StaticArgs ==
    {[name |-> n, exposeName |-> e] :
        n \in {"exposedStaticMethod", "exposedStaticMethod2", "wrongStaticMethod"},
        e \in {Undef, "exposedStaticMethod", "alias"}}

\* static methods exposed on the models of the tests, and the router built
NextStatics ==
    \/ Setup /\ \E name \in MongooseModels : AddModel(name)
    \/ \E w \in DOMAIN wrappers, method \in StaticArgs : ExposeStatic(w, method)
    \/ BuildRouter

SpecStatics == Init /\ [][NextStatics]_vars

----------------------------------------------------------------------------
(* Properties of the request handlers *)

Done == rq.stage = "done"

\* the handler h of the matched route was called
Served(h) == out.ran /\ rq.handler = h

\* C3: a hook callback that throws, in any handler and phase, is forwarded by
\* the handler to next(err) with that error; no later hook runs, no response
\* is sent, and after a throwing pre hook the action's mapper call is not made
\* and the store is as it was.
C3_HookThrowForwarded ==
    (Done /\ out.ran /\ \E i \in DOMAIN log : log[i].err # NoErr) =>
        LET c == log[Len(log)]
        IN /\ \A i \in 1..(Len(log) - 1) : log[i].err = NoErr
           /\ out.nexted = <<c.err>>
           /\ out.thrown = <<>>
           /\ out.sent = <<>>
           /\ c.type = "pre" =>
                 /\ store = out.store0
                 /\ \A j \in DOMAIN mapperLog : mapperLog[j].step = "findById"

\* the documents of a response body
SentDocs(body) ==
    CASE body.t = "docs" -> SeqToSet(body.docs)
      [] body.t = "doc" -> {body.doc}
      [] OTHER -> {}

\* C1: every document sent in the response of create, find, findOne, update
\* and delete has every hidden field undefined, whatever post hooks are
\* registered (for the action or for all, before or after the router is
\* built); a count response is not changed by hiding.
C1_HiddenFieldsUndefined ==
    (Done /\ out.ran /\ out.sent # <<>>) =>
        /\ rq.handler \in {"create", "find", "findOne", "update", "delete"} =>
              \A d \in SentDocs(out.sent[1].body) :
                 \A i \in DOMAIN wrappers[rq.w].hidden : GetField(d, wrappers[rq.w].hidden[i]) = Undef
        /\ rq.handler = "count" => out.sent[1].body.t = "count"

\* the middleware key each route is built with
RouteAction(handler) ==
    CASE handler = "findOne" -> "find"
      [] handler = "callStatic" -> "static"
      [] OTHER -> handler

\* C2: on every generated route (count, get by id, list, create, update, PUT
\* create, delete, every exposed static method) exactly one middleware runs
\* before the handler, the one getMiddleware returns for the route's action,
\* and the handler runs only if that middleware continued the request.
C2_OneMiddlewarePerRoute ==
    (rq.stage # "idle" /\ rq.handler # "options") =>
        /\ out.mw = <<getMiddleware(rq.w, RouteAction(rq.handler))>>
        /\ out.ran => Continues(out.mw[1])

\* what an early validation failure of create leaves behind
RejectedBeforeHooks ==
    /\ Done
    /\ Len(out.nexted) = 1
    /\ out.nexted[1].statusCode = 400
    /\ log = <<>>
    /\ mapperLog = <<>>
    /\ out.sent = <<>>
    /\ out.thrown = <<>>
    /\ store = out.store0

\* C4: create with an array body calls next with an error of status code 400;
\* no init, pre or post hook runs, no mapper call is made, no response is sent.
C4_ArrayBodyRejected ==
    (Served("create") /\ rq.body.t = "array") => RejectedBeforeHooks

\* an array body was rejected although hooks are registered for init and create
C4_Witness ==
    /\ Served("create") /\ rq.body.t = "array" /\ Done
    /\ wrappers[rq.w].hooks["pre"]["init"] # <<>>
    /\ wrappers[rq.w].hooks["pre"]["create"] # <<>>

\* C5: create with a body that is not an object (a string here) fails with a
\* 400 validation error before any hook runs and before any mapper call.
C5_NonObjectBodyRejected ==
    (Served("create") /\ rq.body.t \notin {"object", "array"}) => RejectedBeforeHooks

\* the request's id had no document in the collection its lookup went to
AbsentId ==
    LET m == mapperLog[1].model
        coll == out.store0[m.db][m.mn]
    IN \A i \in DOMAIN coll : coll[i]["_id"] # rq.seg

\* C6: findOne, update and delete on an id with no stored document forward a
\* 404-class error to next and send nothing; update and delete run no pre and
\* no post hook of their action and leave the store as it was; findOne runs
\* no post findOne hook.
C6_NotFound ==
    (/\ Done /\ out.ran /\ rq.handler \in {"findOne", "update", "delete"}
     /\ mapperLog # <<>> /\ mapperLog[1].res # "rejected" /\ AbsentId) =>
        /\ mapperLog[1].res = "null"
        /\ Len(mapperLog) = 1
        /\ Len(out.nexted) = 1
        /\ out.nexted[1].status = 404 \/ out.nexted[1].statusCode = 404
        /\ out.sent = <<>>
        /\ out.thrown = <<>>
        /\ store = out.store0
        /\ \A i \in DOMAIN log :
              log[i].action = rq.handler => (log[i].type = "pre" /\ rq.handler = "findOne")

\* an update of an absent id ended in 404 with update hooks registered
C6_Witness ==
    /\ Done /\ Served("update") /\ mapperLog # <<>> /\ mapperLog[1].res = "null"
    /\ wrappers[rq.w].hooks["pre"]["update"] # <<>>
    /\ wrappers[rq.w].hooks["post"]["update"] # <<>>
    /\ Len(out.nexted) = 1 /\ out.nexted[1].status = 404

\* the callbacks registered on w for (type, action), in registration order
Registered(w, type, action) ==
    LET rs == RegistrationsOf(regs, w, type, action)
    IN [i \in 1..Cardinality(rs) |-> <<type, (CHOOSE r \in rs : r.n = i).cb>>]

\* what applyHooks(type, action) has to call: (type, action), then (type, all)
Expected(w, type, action) ==
    LET specific == Registered(w, type, action)
        all == Registered(w, type, "all")
    IN [i \in DOMAIN specific |-> <<type, action, specific[i][2]>>]
       \o [i \in DOMAIN all |-> <<type, action, all[i][2]>>]

\* the calls of the request made by applyHooks(type, action)
Segment(type, action) == SelectSeq(log, LAMBDA c : c.type = type /\ c.action = action)

Calls(cs) == [i \in DOMAIN cs |-> <<cs[i].type, cs[i].action, cs[i].cb>>]

IsPrefix(s, t) == Len(s) <= Len(t) /\ s = SubSeq(t, 1, Len(s))

\* the payload each handler passes to applyHooks
PayloadKind(type, action) ==
    CASE action = "init" -> IF type = "pre" THEN "params" ELSE "model"
      [] action = "static" -> "name"
      [] type = "pre" /\ action = "create" -> "undef"
      [] type = "pre" /\ action \in {"find", "findOne", "count"} -> "query"
      [] action = "find" -> "docs"
      [] action = "count" -> "count"
      [] OTHER -> "doc"

----------------------------------------------------------------------------
(* Properties of the registration calls *)

\* the model names of a sequence of wrappers
Names(ms) == [i \in DOMAIN ms |-> wrappers[ms[i]].modelName]

NoDuplicates(s) == \A i, j \in DOMAIN s : s[i] = s[j] => i = j

\* C8: no two registered wrappers have the same model name; addModel of a
\* registered name throws and leaves the registry unchanged; removeModel of a
\* name not registered leaves it unchanged; addModel of a name that is not
\* registered (also after its removeModel) appends and returns a new wrapper.
C8_UniqueModelNames ==
    /\ NoDuplicates(Names(models))
    /\ lastOp.op = "addModel" =>
          /\ lastOp.threw <=> lastOp.arg \in SeqToSet(Names(lastOp.before))
          /\ lastOp.threw => models = lastOp.before
          /\ ~lastOp.threw =>
                /\ models = Append(lastOp.before, lastOp.w)
                /\ wrappers[lastOp.w].modelName = lastOp.arg
                /\ lastOp.w \notin SeqToSet(lastOp.before)
    /\ lastOp.op = "removeModel" =>
          /\ ~lastOp.threw
          /\ lastOp.arg \notin SeqToSet(Names(lastOp.before)) => models = lastOp.before
          /\ lastOp.arg \notin SeqToSet(Names(models))

\* a name was added again after its removal: a new wrapper, the old one gone
C8_Witness ==
    /\ lastOp.op = "addModel" /\ ~lastOp.threw
    /\ \E w \in DOMAIN wrappers :
          /\ w # lastOp.w
          /\ wrappers[w].modelName = lastOp.arg
          /\ w \notin SeqToSet(models)
    /\ Len(models) >= 2

\* the descriptor exposeStatic makes of its argument
Exposed(method) ==
    [name |-> method.name,
     exposeName |-> IF method.exposeName = Undef THEN method.name ELSE method.exposeName]

\* C9: the statics list holds at most one descriptor per exposeName; exposing
\* an exposeName of the list replaces that descriptor at its position and
\* leaves the length and the other entries; a new exposeName appends one entry.
C9_OneStaticPerExposeName ==
    /\ \A w \in DOMAIN wrappers :
          NoDuplicates([i \in DOMAIN wrappers[w].statics |-> wrappers[w].statics[i].exposeName])
    /\ (lastOp.op = "exposeStatic" /\ ~lastOp.threw) =>
          LET before == lastOp.before
              now == wrappers[lastOp.w].statics
              d == Exposed(lastOp.arg)
          IN IF \E i \in DOMAIN before : before[i].exposeName = d.exposeName
             THEN /\ Len(now) = Len(before)
                  /\ \A i \in DOMAIN before :
                        now[i] = IF before[i].exposeName = d.exposeName THEN d ELSE before[i]
             ELSE now = Append(before, d)

\* a descriptor was replaced by another method, in a list of two, at the first position
C9_Witness ==
    /\ lastOp.op = "exposeStatic" /\ ~lastOp.threw
    /\ Len(lastOp.before) = 2
    /\ lastOp.before[1].exposeName = Exposed(lastOp.arg).exposeName
    /\ lastOp.before[1].name # lastOp.arg.name
    /\ wrappers[lastOp.w].statics[1].name = lastOp.arg.name

\* C10: exposeStatic of a name that is not a function among the model's
\* static methods throws at registration and leaves the statics list
\* unchanged, so no route is built for it.
C10_MissingStaticThrows ==
    /\ lastOp.op = "exposeStatic" =>
          /\ lastOp.threw <=> lastOp.arg.name \notin SchemaStatics(wrappers[lastOp.w].modelName)
          /\ lastOp.threw => wrappers[lastOp.w].statics = lastOp.before
    /\ \A w \in DOMAIN wrappers : \A i \in DOMAIN wrappers[w].statics :
          wrappers[w].statics[i].name \in SchemaStatics(wrappers[w].modelName)
    /\ \A i \in DOMAIN router.routes :
          router.routes[i].handler = "callStatic" =>
             router.routes[i].method \in SchemaStatics(wrappers[router.routes[i].w].modelName)

\* a missing method was refused on a wrapper with an exposed method, and the
\* router was built afterwards
C10_Witness ==
    /\ lastOp.op = "exposeStatic" /\ lastOp.threw
    /\ lastOp.arg.name = "wrongStaticMethod"
    /\ lastOp.before # <<>>
    /\ router.builds > 0
    /\ \E i \in DOMAIN router.routes : router.routes[i].handler = "callStatic"

----------------------------------------------------------------------------
(* Properties of the responses *)

\* the `filter` query parameter of a request as the client means it
FilterParameter(query) == IF query.filter.t = "object" THEN query.filter.v ELSE EmptyObject

\* the stored documents of the request's collection that match a filter
Matching(filter) ==
    LET coll == store["default"][wrappers[rq.w].modelName]
    IN {i \in DOMAIN coll : Matches(coll[i], filter)}

\* C11: GET count with a `filter` parameter F answers {count: n}, n the number
\* of stored documents matching F (what find returns for F); without any
\* query parameter it answers the total number of documents.
C11_CountMatchesFilter ==
    (Done /\ Served("count") /\ out.sent # <<>> /\ log = <<>> /\ rq.query.rest = EmptyObject) =>
        out.sent[1].body = [t |-> "count", count |-> Cardinality(Matching(FilterParameter(rq.query)))]

\* no callback of the application was called: at most the hook of setupModel
NoUserHook(calls) == \A i \in DOMAIN calls : calls[i].cb = "hide"

\* a response was sent in this step to a request that ran no hook of the application
Answered(h) ==
    /\ ~Done /\ Done'
    /\ out'.ran /\ rq'.handler = h
    /\ out'.sent # <<>> /\ NoUserHook(log')

\* the response to a request of one client, against what its earlier
\* successful requests ask the collection to hold
RoundTripStep ==
    /\ (Answered("find") /\ rq'.query = NoQuery) =>
          LET docs == out'.sent[1].body.docs
          IN /\ SeqToSet(docs) = shadow[rq'.coll]
             /\ Len(docs) = Cardinality(shadow[rq'.coll])
    /\ Answered("findOne") =>
          /\ out'.sent[1].body.doc \in shadow[rq'.coll]
          /\ out'.sent[1].body.doc["_id"] = rq'.seg
    /\ (Answered("count") /\ rq'.query = NoQuery) =>
          out'.sent[1].body = [t |-> "count", count |-> Cardinality(shadow[rq'.coll])]
    /\ Answered("delete") =>
          /\ out'.sent[1].body.doc \in shadow[rq'.coll]
          /\ out'.sent[1].body.doc["_id"] = rq'.seg
          /\ shadow'[rq'.coll] = shadow[rq'.coll] \ {out'.sent[1].body.doc}

C13_StaticParamsByName ==
    (Done /\ Served("callStatic") /\ out.sent # <<>>) =>
        /\ out.sent[1].status = 200
        /\ out.sent[1].body.t = "result"
        /\ out.sent[1].body.result =
              [message |-> <<rq.method, GetField(rq.body.v, "param1"), GetField(rq.body.v, "param2")>>]

\* the body's keys were sent in the other order than the parameters are declared
C13_Witness ==
    /\ Done /\ Served("callStatic") /\ out.sent # <<>>
    /\ rq.body.keys = <<"param2", "param1">>
    /\ out.sent[1].body.result = [message |-> <<"exposedStaticMethod", "p1", "p2">>]

\* the callbacks of the most recent registration of (wrapper, kind, key) among
\* rs: a set with one element, or empty when there is no registration
LatestIn(rs, w, type, key) ==
    {r.cb : r \in {r \in RegistrationsOf(rs, w, type, key) :
                      \A q \in RegistrationsOf(rs, w, type, key) : q.n <= r.n}}

Latest(w, type, key) == LatestIn(regs, w, type, key)

\* the middleware the setMiddleware calls made so far select for an action
Selected(w, action) ==
    IF Latest(w, "middleware", action) # {} THEN Latest(w, "middleware", action)
    ELSE IF Latest(w, "middleware", "all") # {} THEN Latest(w, "middleware", "all")
    ELSE {"mwDefault"}

\* C14: after any sequence of setMiddleware calls, with a single action or an
\* array of actions, getMiddleware(a) is the middleware most recently set for
\* a, else the one most recently set for `all`, else the default; the default
\* passes the request on to the handler and sends nothing itself.
C14_LastMiddlewareWins ==
    /\ \A w \in DOMAIN wrappers : \A a \in MwKeys : Selected(w, a) = {getMiddleware(w, a)}
    /\ (rq.stage # "idle" /\ out.mw = <<"mwDefault">>) => out.ran

\* a wrapper whose middleware for one action was set twice, to different
\* callbacks, the later of which getMiddleware returns
C14_Witness ==
    \E w \in DOMAIN wrappers : \E a \in MwKeys \ {"all"} :
        /\ Cardinality({r.cb : r \in RegistrationsOf(regs, w, "middleware", a)}) = 2
        /\ getMiddleware(w, a) \in Latest(w, "middleware", a)

\* the filter the client's query string asks the handler for
ClientFilter ==
    CASE rq.handler = "findOne" -> SetField(parseQueryFilter(rq.query).v, "_id", rq.seg)
      [] rq.handler = "count" -> QueryObject(rq.query)
      [] OTHER -> parseQueryFilter(rq.query).v

\* whether a mutating callback ran among the (phase, action) hooks of the request
Mutated(type, action) ==
    \E i \in DOMAIN log : log[i].type = type /\ log[i].action = action /\ log[i].cb = "hSet"

\* C15: the filter find, findOne and count pass to the mapper is the one of
\* the QueryDescriptor after the action's pre hooks ran, so a key set by a pre
\* hook overrides the client's; the documents sent are the result as the post
\* hooks left it.
C15_HookMutationsUsed ==
    /\ (rq.stage # "idle" /\ rq.handler \in {"find", "findOne", "count"} /\ mapperLog # <<>>) =>
          mapperLog[1].arg = IF Mutated("pre", rq.handler)
                             THEN SetField(ClientFilter, "a", HookValue)
                             ELSE ClientFilter
    /\ (Done /\ out.ran /\ out.sent # <<>> /\ Mutated("post", rq.handler)) =>
          \A d \in SentDocs(out.sent[1].body) : GetField(d, "a") = HookValue

\* a find whose client filter names the key a pre find hook sets was answered,
\* after a post find hook changed the documents that were found
C15_Witness ==
    /\ Done /\ out.ran /\ rq.handler = "find" /\ out.sent # <<>>
    /\ GetField(ClientFilter, "a") = BodyValue
    /\ Mutated("pre", "find") /\ Mutated("post", "find")
    /\ mapperLog[1].arg["a"] = HookValue
    /\ SentDocs(out.sent[1].body) # {}

\* the registrations made before the router that serves the requests was built
BeforeBuild == {r \in regs : r.built < router.builds}

\* the registrations made after it was built
AfterBuild == regs \ BeforeBuild

\* the middleware the setMiddleware calls made before the build select for a key
SelectedAtBuild(w, key) ==
    IF LatestIn(BeforeBuild, w, "middleware", key) # {} THEN LatestIn(BeforeBuild, w, "middleware", key)
    ELSE IF LatestIn(BeforeBuild, w, "middleware", "all") # {} THEN LatestIn(BeforeBuild, w, "middleware", "all")
    ELSE {"mwDefault"}

\* the expose names a wrapper's static routes answer to
StaticRouteNames(w) ==
    {router.routes[i].seg : i \in {k \in DOMAIN router.routes :
                                       router.routes[k].w = w /\ router.routes[k].handler = "callStatic"}}

\* C16: the middleware that runs on a route is the one selected by the
\* setMiddleware calls made before the router was built, whatever is set
\* afterwards; the static routes are those of the methods exposed before the
\* build; the hooks called for a request are all those registered by then,
\* including the ones added after the build.
C16_BuildTimeCapture ==
    /\ (rq.stage # "idle" /\ rq.handler \notin {"options", "callStatic"}) =>
          /\ Len(out.mw) = 1
          /\ out.mw[1] \in SelectedAtBuild(rq.w, RouteAction(rq.handler))
    /\ \A w \in DOMAIN wrappers :
          StaticRouteNames(w) = {r.action : r \in {q \in BeforeBuild : q.w = w /\ q.type = "static"}}
    /\ (rq.stage # "idle" /\ rq.handler = "callStatic") =>
          RegistrationsOf(BeforeBuild, rq.w, "static", rq.seg) # {}
    /\ (Done /\ out.ran /\ out.sent # <<>> /\ rq.handler \notin {"options", "callStatic"}) =>
          \A type \in HookTypes :
             Calls(Segment(type, rq.handler)) = Expected(rq.w, type, rq.handler)

\* a list request was answered by a router built before the find middleware was
\* changed, before a static method was exposed and before a find hook was added
C16_Witness ==
    /\ Done /\ out.ran /\ out.sent # <<>> /\ rq.handler = "find"
    /\ out.mw # <<getMiddleware(rq.w, "find")>>
    /\ \E r \in AfterBuild : r.w = rq.w /\ r.type = "middleware" /\ r.action = "find"
    /\ \E r \in AfterBuild : r.w = rq.w /\ r.type = "static" /\ r.action \notin StaticRouteNames(rq.w)
    /\ \E r \in AfterBuild : r.w = rq.w /\ r.type = "pre" /\ r.action = "find"
    /\ \E i \in DOMAIN log : log[i].type = "pre" /\ log[i].action = "find" /\ log[i].cb = "hSet"

\* the request being served, with what it has done so far
Current == [rq |-> rq, out |-> out, log |-> log, mapperLog |-> mapperLog]

\* the database name the pre init hooks of a request left in its params
ParamsDb(calls) ==
    IF \E i \in DOMAIN calls : calls[i].type = "pre" /\ calls[i].action = "init" /\ calls[i].cb = "hDb"
    THEN "db2" ELSE "default"

\* the place of a hook call in a handler: pre init, post init, the action's hooks
Rank(c) == IF c.action # "init" THEN 3 ELSE IF c.type = "pre" THEN 1 ELSE 2

\* the argument the first mapper call of a request is due, from the request alone
OwnArgument(x) ==
    CASE x.rq.handler = "create" -> x.rq.body
      [] x.rq.handler = "find" ->
            IF \E i \in DOMAIN x.log : x.log[i].type = "pre" /\ x.log[i].action = "find" /\ x.log[i].cb = "hSet"
            THEN SetField(parseQueryFilter(x.rq.query).v, "a", HookValue)
            ELSE parseQueryFilter(x.rq.query).v
      [] OTHER -> [_id |-> x.rq.seg]

\* a request in flight ran its init hooks in order and called the mapper on its
\* own model with its own argument
OwnModelAndQuery(x) ==
    (x.rq.stage # "idle" /\ x.out.ran /\ x.rq.handler # "options") =>
        /\ \A i, j \in DOMAIN x.log : i < j => Rank(x.log[i]) <= Rank(x.log[j])
        /\ \A i \in DOMAIN x.log :
              /\ Rank(x.log[i]) = 1 => x.log[i].data.t = "params"
              /\ Rank(x.log[i]) = 2 =>
                    x.log[i].data = [t |-> "model", mn |-> wrappers[x.rq.w].modelName, db |-> ParamsDb(x.log)]
        /\ (x.log # <<>> /\ Rank(x.log[1]) = 1) => x.log[1].data.db = Undef
        /\ x.mapperLog # <<>> =>
              /\ \A r \in {y \in regs : y.w = x.rq.w /\ y.action \in {"init", "all"} /\ y.type \in HookTypes} :
                    \E i \in DOMAIN x.log : x.log[i].type = r.type /\ x.log[i].action = "init" /\ x.log[i].cb = r.cb
              /\ x.mapperLog[1].arg = OwnArgument(x)
        /\ \A k \in DOMAIN x.mapperLog :
              /\ x.mapperLog[k].model.mn = wrappers[x.rq.w].modelName
              /\ CollectionName(x.mapperLog[k].model.mn) = x.rq.coll
              /\ x.mapperLog[k].model.db = ParamsDb(x.log)

\* C17: in every handler the pre init hooks run first, on a fresh params
\* object, then the model is resolved from the database params.db names (the
\* default one when unset), then the post init hooks run on that model, and
\* only then the action's hooks; with two requests in flight, interleaved in
\* any way, the mapper calls of each use its own model and its own query.
C17_OwnModelAndQuery == OwnModelAndQuery(Current) /\ OwnModelAndQuery(parked)

\* a request was answered from one database while another request, dispatched
\* to the other model, waits for its mapper call on another database
C17_Witness ==
    /\ Done /\ out.ran /\ out.sent # <<>> /\ mapperLog # <<>>
    /\ parked.rq.stage = "await" /\ parked.mapperLog # <<>>
    /\ parked.rq.w # rq.w
    /\ ParamsDb(log) # ParamsDb(parked.log)
    /\ mapperLog[1].model.db # parked.mapperLog[1].model.db
    /\ \E i \in DOMAIN log : Rank(log[i]) = 2

\* C18: a request that reached a handler ends with exactly one outcome, a
\* response sent once or an error passed to next once, whatever its hooks did
\* and however its mapper call settled.
C18_ExactlyOneOutcome ==
    (Done /\ out.ran /\ rq.handler # "options") =>
        /\ Len(out.sent) + Len(out.nexted) = 1
        /\ out.thrown = <<>>

\* C19: when the mapper call of a handler rejects, next is called once with
\* the error the mapper rejected with, unchanged; no post hook of the action
\* runs, the hiding hook does not run and no response is sent.
C19_MapperErrorForwarded ==
    (Done /\ mapperLog # <<>> /\ mapperLog[Len(mapperLog)].res = "rejected") =>
        /\ out.nexted = <<mapperLog[Len(mapperLog)].err>>
        /\ out.sent = <<>>
        /\ out.thrown = <<>>
        /\ \A i \in DOMAIN log : log[i].type = "post" => log[i].action = "init"
        /\ \A i \in DOMAIN log : log[i].cb # "hide"

\* the save of an update was rejected after a pre update hook had run, on a
\* wrapper that has post update hooks
C19_Witness ==
    /\ Done /\ rq.handler = "update" /\ Len(mapperLog) = 2
    /\ mapperLog[2].step = "saved" /\ mapperLog[2].res = "rejected"
    /\ out.nexted = <<MapperError>>
    /\ \E i \in DOMAIN log : log[i].type = "pre" /\ log[i].action = "update"
    /\ Len(wrappers[rq.w].hooks["post"]["update"]) >= 2

\* the status an error handler reading err.statusCode answers with:
\* res.status(err.statusCode || 400)
ErrorStatus(err) == IF err.statusCode # 0 THEN err.statusCode ELSE 400

\* C20: the not-found error update and delete forward for an absent id carries
\* its status as findOne's does, in the attribute statusCode with value 404
\* (the attribute of the 400 validation error), so an error handler reading
\* that attribute answers 404 to all three.
C20_NotFoundStatusCode ==
    (/\ Done /\ out.ran /\ rq.handler \in {"findOne", "update", "delete"}
     /\ mapperLog # <<>> /\ mapperLog[1].res = "null") =>
        /\ Len(out.nexted) = 1
        /\ out.nexted[1].statusCode = NotFoundError.statusCode
        /\ ErrorStatus(out.nexted[1]) = 404

----------------------------------------------------------------------------
(* Properties of exposed methods, query parsing and routing *)

\* C21: the pre hooks of callStatic get the method name; its post hooks run
\* once the result is available, before it is sent, and get the method name and
\* the result.
C21_MethodHooksPayload ==
    (rq.stage # "idle" /\ rq.handler = "callStatic") =>
        \A i \in DOMAIN log :
           log[i].action = "static" =>
              /\ log[i].data.t = "name"
              /\ log[i].data.name = rq.method
              /\ log[i].type = "post" =>
                    /\ rq.pend = NoPend
                    /\ "result" \in DOMAIN log[i].data

\* C22: static(m) leaves the wrapper as exposeStatic(m) does: m added to or
\* replaced in the statics list, the methods list as it was, the same failure
\* when m is not a static method of the model; a router built afterwards has a
\* POST route for m.
C22_StaticShortcut ==
    /\ lastOp.op = "static" =>
          /\ lastOp.threw <=> ~IsStaticFunction(lastOp.w, lastOp.arg.name)
          /\ wrappers[lastOp.w].methods = lastOp.methods
          /\ wrappers[lastOp.w].statics =
                IF lastOp.threw THEN lastOp.before ELSE PutStatic(lastOp.before, Exposed(lastOp.arg))
    /\ (lastOp.op = "static" /\ ~lastOp.threw /\ router.routes # <<>>) =>
          \E i \in DOMAIN router.routes :
             /\ router.routes[i].w = lastOp.w
             /\ router.routes[i].handler = "callStatic"
             /\ router.routes[i].seg = Exposed(lastOp.arg).exposeName

\* C23: exposeMethod(m) succeeds exactly when m is a function among the
\* instance methods of the model, and then appends its descriptor to the
\* methods list; otherwise it throws and leaves the list: a name that is only
\* a static method fails, a name that is only an instance method succeeds.
C23_ExposeMethodValidates ==
    lastOp.op = "exposeMethod" =>
        /\ lastOp.threw <=> lastOp.arg.name \notin SchemaMethods(wrappers[lastOp.w].modelName)
        /\ wrappers[lastOp.w].methods =
              IF lastOp.threw THEN lastOp.methods ELSE Append(lastOp.methods, Exposed(lastOp.arg))

\* C24: with a start parameter and no skip parameter the options have
\* skip = Number(start); a skip parameter that is present is the one used;
\* sort and limit are options exactly when they are parameters; no option is
\* there without a parameter to give it.
C24_QueryOptions ==
    lastOp.op = "parseQueryOptions" =>
        LET q == lastOp.arg.rest
            o == lastOp.result
        IN /\ ("start" \in DOMAIN q /\ "skip" \notin DOMAIN q) =>
                 "skip" \in DOMAIN o /\ o["skip"] = Number(q["start"])
           /\ "skip" \in DOMAIN q => "skip" \in DOMAIN o /\ o["skip"] = Number(q["skip"])
           /\ "sort" \in DOMAIN o <=> "sort" \in DOMAIN q
           /\ "limit" \in DOMAIN o <=> "limit" \in DOMAIN q
           /\ "skip" \in DOMAIN o => "skip" \in DOMAIN q \/ "start" \in DOMAIN q
           /\ DOMAIN o \subseteq {"sort", "skip", "limit"}

\* C25: the filter of a parsed query is a mapping whatever the filter
\* parameter is, so findOne sets _id on it without failing.
C25_FilterIsMapping ==
    /\ lastOp.op = "parseQueryFilter" => lastOp.result.t = "object"
    /\ lastOp.op = "findOne" => ~lastOp.threw /\ lastOp.result.t = "object"

\* the document of the route id as it was stored when the request arrived
Fetched ==
    LET coll == Collection(out.store0, mapperLog[1].model)
    IN coll[CHOOSE i \in DOMAIN coll : coll[i]["_id"] = rq.seg]

\* a document with the fields of the request body laid over it
Overlaid(doc) == [k \in DOMAIN doc |-> IF k \in DOMAIN rq.body.v THEN rq.body.v[k] ELSE doc[k]]

\* the document update has to save: the fetched one as the pre update hooks
\* left it, then the body
ToSave == Overlaid(IF Mutated("pre", "update") THEN SetField(Fetched, "a", HookValue) ELSE Fetched)

\* C26: update saves, in one save, the fetched document with the mutations of
\* the pre update hooks and then the fields of the body laid over it, the
\* body winning and every other field, hidden or not, keeping its value; the
\* response is that document after the post hooks, with the hidden fields
\* cleared.
C26_UpdateMerges ==
    (Done /\ Served("update") /\ out.sent # <<>>) =>
        /\ Len(mapperLog) = 2
        /\ mapperLog[2].op = "save"
        /\ mapperLog[2].arg = ToSave
        /\ \E i \in DOMAIN Collection(store, mapperLog[1].model) :
              Collection(store, mapperLog[1].model)[i] = ToSave
        /\ out.sent[1].body.doc =
              removeHidden(IF Mutated("post", "update") THEN SetField(ToSave, "a", HookValue) ELSE ToSave,
                           wrappers[rq.w].hidden)

\* the expose names of the static methods wrapper w had when the router was built
ExposedAtBuild(w) == {r.action : r \in {x \in BeforeBuild : x.w = w /\ x.type = "static"}}

\* the steps of the mapper calls each generated handler makes
HandlerSteps(handler) ==
    CASE handler \in {"count", "findOne", "find", "create"} -> {handler}
      [] handler \in {"update", "delete"} -> {"findById", "saved"}
      [] OTHER -> {}

\* the routes registered before route i that match the request being served
EarlierMatches(i) == {j \in 1..(i - 1) : RouteMatches(router.routes[j], rq)}

\* C27: a request is served by one generated handler, that of the first
\* registered route matching it: GET /<collection>/count by count and not by
\* findOne with the id `count`, POST /<collection>/<exposeName> by the exposed
\* static method and not by update; nothing of another handler runs for it
\* and it is answered at most once.
C27_OneHandlerByRouteOrder ==
    rq.stage # "idle" =>
        /\ RouteMatches(router.routes[rq.route], rq)
        /\ EarlierMatches(rq.route) = {}
        /\ rq.handler = router.routes[rq.route].handler
        /\ (rq.verb = "GET" /\ rq.seg = "count") => rq.handler = "count"
        /\ (rq.verb = "POST" /\ rq.seg \in ExposedAtBuild(rq.w)) =>
              /\ rq.handler = "callStatic"
              /\ [name |-> rq.method, exposeName |-> rq.seg] \in SeqToSet(wrappers[rq.w].statics)
        /\ \A i \in DOMAIN mapperLog : mapperLog[i].step \in HandlerSteps(rq.handler)
        /\ rq.pend # NoPend => rq.pend.step \in HandlerSteps(rq.handler) \cup {"static"}
        /\ rq.pend # NoPend /\ rq.pend.step = "static" => rq.handler = "callStatic"
        /\ Len(out.sent) + Len(out.nexted) + Len(out.thrown) <= 1

\* a POST to an exposed name was answered by the static method although the
\* update route, registered later, matches the request as well
C27_Witness ==
    /\ Done /\ Served("callStatic") /\ out.sent # <<>>
    /\ rq.seg \in ExposedAtBuild(rq.w)
    /\ \E j \in DOMAIN router.routes :
          /\ j > rq.route
          /\ router.routes[j].handler = "update"
          /\ RouteMatches(router.routes[j], rq)

====
